---- MODULE Spec2Model ----
(***************************************************************************)
(* Model of the correspondent normalisation that apply_v14.2_fixes.py      *)
(* writes into the 'Generate Storage Path' node, and of the workflow that  *)
(* enhance_workflow.py builds and apply_fixes patches.                     *)
(*                                                                         *)
(* A JavaScript string is a sequence of characters; a character is a       *)
(* one-character TLA+ string, except the three non-ASCII characters, which *)
(* are named by their code point.                                          *)
(*                                                                         *)
(* The JavaScript text is held in non-raw Python ''' literals, so Python   *)
(* halves every run of backslashes before the text reaches the node:       *)
(*   Python source  /\\\\s+/g   ->  JavaScript  /\\s+/g                    *)
(* and in a JavaScript regex literal \\ is one literal backslash: /\\s+/   *)
(* matches a backslash followed by one or more letters s.  The patterns    *)
(* below are the ones the node receives.                                   *)
(***************************************************************************)
EXTENDS Integers, Sequences, FiniteSets, TLC

VARIABLES
    name,        \* the value passed to normalizeCorrespondent / generateSlug
    pc,          \* position of the caller
    canonical,   \* the value normalizeCorrespondent returned last
    previous,    \* the value it returned on the call before that
    slug,        \* the value generateSlug returned
    wf,          \* the workflow document: node name -> parameters
    wfpc,        \* the builder / execution position in the workflow
    item,        \* the outputs of the nodes that have run
    sent,        \* the request bodies sent to the document server
    paths,       \* the storage paths the document server holds, in list order
    visited,     \* the nodes the execution has run, in order
    thrown,      \* the message of the error that ended the execution, or <<>>
    runs,        \* the number of executions started on the document
    calls,       \* per caller: the function it called, the argument, the
                 \* statement it is at and the value returned
    frames,      \* per call: its variables lowerName and n
    tables       \* LEGAL_SUFFIXES and ALIASES as the node holds them

vars == <<name, pc, canonical, previous, slug, wf, wfpc, item, sent,
          paths, visited, thrown, runs, calls, frames, tables>>

----------------------------------------------------------------------------
\* Characters

Chars(s) == [i \in 1..Len(s) |-> SubSeq(s, i, i)]

Range(f) == {f[i] : i \in DOMAIN f}

BS == "\\"
AUML == "U+00C4"
aUML == "U+00E4"
DIAERESIS == "U+0308"

UpperChars == Chars("ABCDEFGHIJKLMNOPQRSTUVWXYZ")
LowerChars == Chars("abcdefghijklmnopqrstuvwxyz")
DigitChars == Chars("0123456789")

Upper == Range(UpperChars)
Lower == Range(LowerChars)
Digit == Range(DigitChars)

\* What String.prototype.trim removes.
WhiteSpace == {" ", "\t", "\n"}

IndexOf(seq, c) == CHOOSE i \in 1..Len(seq) : seq[i] = c

toLowerCaseChar(c) ==
    IF c \in Upper THEN LowerChars[IndexOf(UpperChars, c)]
    ELSE IF c = AUML THEN aUML
    ELSE c

toUpperCaseChar(c) ==
    IF c \in Lower THEN UpperChars[IndexOf(LowerChars, c)]
    ELSE IF c = aUML THEN AUML
    ELSE c

\* The element of a one-element set.  {e(x) : x \in {arg}} computes arg
\* once, however often e reads x.
The(S) == CHOOSE x \in S : TRUE

toLowerCase(str) ==
    The({[i \in 1..Len(s) |-> toLowerCaseChar(s[i])] : s \in {str}})

toUpperCase(str) ==
    The({[i \in 1..Len(s) |-> toUpperCaseChar(s[i])] : s \in {str}})

Min(a, b) == IF a < b THEN a ELSE b

\* s without the characters before the first and after the last position
\* of keep.
Between(s, keep) ==
    IF keep = {} THEN <<>>
    ELSE SubSeq(s, CHOOSE i \in keep : \A j \in keep : i <= j,
                   CHOOSE i \in keep : \A j \in keep : i >= j)

\* s.trim()
trim(str) ==
    The({The({Between(s, keep) :
                keep \in {{i \in 1..Len(s) : s[i] \notin WhiteSpace}}}) :
         s \in {str}})

\* s.startsWith(key)
startsWith(s, key) ==
    /\ Len(key) <= Len(s)
    /\ SubSeq(s, 1, Len(key)) = key

----------------------------------------------------------------------------
\* Regular expressions: a pattern is a sequence of items, each a character
\* class with a quantifier.  Every pattern of the program has an item that
\* follows a starred class and is disjoint from it, so greedy matching
\* without backtracking is what the JavaScript engine computes.

One(S)  == [set |-> S, neg |-> FALSE, min |-> 1, many |-> FALSE]
Opt(S)  == [set |-> S, neg |-> FALSE, min |-> 0, many |-> FALSE]
Star(S) == [set |-> S, neg |-> FALSE, min |-> 0, many |-> TRUE]
Plus(S) == [set |-> S, neg |-> FALSE, min |-> 1, many |-> TRUE]
PlusNot(S) == [set |-> S, neg |-> TRUE, min |-> 1, many |-> TRUE]

Lit(str) == [i \in 1..Len(str) |-> One({str[i]})]

\* The i flag: a class matches both cases of its letters.
IgnoreCase(pat) ==
    [k \in 1..Len(pat) |->
        [pat[k] EXCEPT !.set = pat[k].set
                                 \cup {toLowerCaseChar(c) : c \in pat[k].set}
                                 \cup {toUpperCaseChar(c) : c \in pat[k].set}]]

InClass(c, it) == (c \in it.set) # it.neg

\* The number of characters of s from position i on that are in the class.
RECURSIVE RunLen(_, _, _)
RunLen(s, i, it) ==
    IF i > Len(s) \/ ~InClass(s[i], it) THEN 0
    ELSE 1 + RunLen(s, i + 1, it)

\* The position after the match of pat[k..] at position p of s, 0 if none.
RECURSIVE MatchFrom(_, _, _, _, _)
MatchFrom(s, p, pat, k, atEnd) ==
    IF k > Len(pat)
    THEN IF atEnd /\ p # Len(s) + 1 THEN 0 ELSE p
    ELSE IF pat[k].many
    THEN LET run == RunLen(s, p, pat[k])
         IN  IF run < pat[k].min THEN 0
             ELSE MatchFrom(s, p + run, pat, k + 1, atEnd)
    ELSE IF p <= Len(s) /\ InClass(s[p], pat[k])
    THEN MatchFrom(s, p + 1, pat, k + 1, atEnd)
    ELSE IF pat[k].min = 0 THEN MatchFrom(s, p, pat, k + 1, atEnd)
    ELSE 0

\* The length of the match of the first alternative of alts that matches at
\* position i of s (atEnd: the pattern ends with $), 0 if none does.
MatchLen(s, i, alts, atEnd) ==
    LET ok == {a \in 1..Len(alts) : MatchFrom(s, i, alts[a], 1, atEnd) > i}
    IN  IF ok = {} THEN 0
        ELSE MatchFrom(s, i, alts[CHOOSE a \in ok : \A b \in ok : a <= b],
                       1, atEnd) - i

\* The first position from i on where alts matches, 0 if there is none.
NextMatch(s, i, alts, atEnd) ==
    The({IF at = {} THEN 0 ELSE CHOOSE j \in at : \A k \in at : j <= k :
         at \in {{j \in i..Len(s) : MatchLen(s, j, alts, atEnd) > 0}}})

\* The second argument of replace: a string, or a function of the match.
Text(str) == [fn |-> "text", text |-> str]
Space     == Text(<<" ">>)
Nothing   == Text(<<>>)
Hyphen    == Text(<<"-">>)
ToUpper   == [fn |-> "toUpperCase", text |-> <<>>]

Replacement(repl, m) ==
    IF repl.fn = "toUpperCase" THEN toUpperCase(m) ELSE repl.text

\* s.replace(/alts/g, repl) from position 1 on: every match, left to right.
replaceAll(s, alts, atEnd, repl) ==
    LET out[i \in 1..(Len(s) + 1)] ==
            The({IF j = 0 THEN SubSeq(s, i, Len(s))
                 ELSE The({SubSeq(s, i, j - 1)
                             \o Replacement(repl, SubSeq(s, j, j + n - 1))
                             \o out[j + n] :
                           n \in {MatchLen(s, j, alts, atEnd)}}) :
                 j \in {NextMatch(s, i, alts, atEnd)}})
    IN  out[1]

\* str.replace(/alts/g, repl)
replace(str, alts, atEnd, repl) ==
    The({replaceAll(s, alts, atEnd, repl) : s \in {str}})

\* s.normalize('NFD'): a precomposed letter becomes its base letter followed
\* by the combining mark.
normalizeNFD(s) ==
    replace(replace(s, << <<One({AUML})>> >>, FALSE, Text(<<"A", DIAERESIS>>)),
            << <<One({aUML})>> >>, FALSE, Text(<<"a", DIAERESIS>>))

----------------------------------------------------------------------------
\* JavaScript values

JsString(s) == [type |-> "string", str |-> s, num |-> 0, truthy |-> s # <<>>]
JsInt(n)    == [type |-> "number", str |-> <<>>, num |-> n, truthy |-> n # 0]

JsNull      == [type |-> "object",    str |-> <<>>, num |-> 0, truthy |-> FALSE]
JsUndefined == [type |-> "undefined", str |-> <<>>, num |-> 0, truthy |-> FALSE]
JsObject    == [type |-> "object",    str |-> <<>>, num |-> 0, truthy |-> TRUE]
JsTrue      == [type |-> "boolean",   str |-> <<>>, num |-> 0, truthy |-> TRUE]
JsFalse     == [type |-> "boolean",   str |-> <<>>, num |-> 0, truthy |-> FALSE]

NonStrings == {JsNull, JsUndefined, JsInt(0), JsInt(7), JsObject, JsTrue, JsFalse}

\* typeof v === 'string'
IsStringValue(v) == v.type = "string"

\* a || b
JsOr(a, b) == IF a.truthy THEN a ELSE b

----------------------------------------------------------------------------
\* NORMALIZATION_CODE

\* const LEGAL_SUFFIXES: each element is the source of a regex alternative.
LEGAL_SUFFIXES ==
    << Lit(Chars("gmbh")), Lit(Chars("kg")), Lit(Chars("kgaa")),
       Lit(Chars("ag")), Lit(Chars("se")), Lit(Chars("llc")),
       Lit(Chars("inc")), Lit(Chars("corp")), Lit(Chars("corporation")),
       Lit(Chars("ltd")), Lit(Chars("limited")), Lit(Chars("plc")),
       Lit(Chars("s.a")) \o <<Opt({"."})>>,
       Lit(Chars("s.r.l")) \o <<Opt({"."})>>,
       Lit(Chars("s.p.a")) \o <<Opt({"."})>>,
       Lit(Chars("bv")), Lit(Chars("nv")), Lit(Chars("oy")),
       Lit(Chars("ab")), Lit(Chars("aps")), Lit(Chars("as")),
       Lit(Chars("co")), Lit(Chars("company")), Lit(Chars("rcv")),
       Lit(Chars("ohg")), Lit(Chars("gbr")), Lit(Chars("ev")),
       Lit(Chars("eg")), Lit(Chars("ges.m.b.h")) \o <<Opt({"."})>>,
       Lit(Chars("stg")) >>

\* const ALIASES, in insertion order (the order Object.entries yields).
ALIASES ==
    << <<Chars("boehringer ingelheim rcv & co"), Chars("Boehringer Ingelheim")>>,
       <<Chars("boehringer ingelheim rcv"), Chars("Boehringer Ingelheim")>>,
       <<Chars("magistrat wien-mba f.d. 21. bezirk"), Chars("Magistrat Wien")>>,
       <<Chars("magistrat wien"), Chars("Magistrat Wien")>>,
       <<Chars("wiener linien gmbh & co"), Chars("Wiener Linien")>>,
       <<Chars("magenta telekom"), Chars("Magenta Telekom")>>,
       <<Chars("magenta"), Chars("Magenta Telekom")>> >>

Unknown == Chars("Unknown")

\* /\\s*&\\s*/g
AmpersandRe == << <<One({BS}), Star({"s"}), One({"&"}), One({BS}), Star({"s"})>> >>

\* /\\s+and\\s+/gi
AndRe ==
    << IgnoreCase(<<One({BS}), Plus({"s"})>> \o Lit(Chars("and"))
                  \o <<One({BS}), Plus({"s"})>>) >>

\* /\\s+/g
SpacesRe == << <<One({BS}), Plus({"s"})>> >>

\* new RegExp('\\\\b(' + LEGAL_SUFFIXES.join('|') + ')\\\\b', 'gi')
SuffixRegExp(suffixes) ==
    [a \in 1..Len(suffixes) |->
        IgnoreCase(Lit(<<BS, "b">>) \o suffixes[a] \o Lit(<<BS, "b">>))]

suffixRe == SuffixRegExp(LEGAL_SUFFIXES)

\* /\\s*[&+]\\s*$/g
TrailingRe == << <<One({BS}), Star({"s"}), One({"&", "+"}), One({BS}), Star({"s"})>> >>

\* /\\b\\w/g
WordStartRe == << Lit(<<BS, "b", BS, "w">>) >>

\* /[.,]/g
PunctRe == << <<One({".", ","})>> >>

\* AliasMatch with === in place of startsWith.
AliasMatchExact(lowerName) ==
    LET hit == {a \in 1..Len(ALIASES) : lowerName = ALIASES[a][1]}
    IN  IF hit = {} THEN 0 ELSE CHOOSE a \in hit : \A b \in hit : a <= b

\* The first alias whose key the lower-cased, trimmed name starts with, 0 if
\* none (the for loop over Object.entries(ALIASES)).
AliasMatchIn(aliases, lowerName) ==
    The({IF hit = {} THEN 0 ELSE CHOOSE a \in hit : \A b \in hit : a <= b :
         hit \in {The({{a \in 1..Len(aliases) : startsWith(l, aliases[a][1])} :
                       l \in {lowerName}})}})

AliasMatch(lowerName) == AliasMatchIn(ALIASES, lowerName)

\* StripName without its calls of trim.
StripNameNoTrim(str) ==
    LET n1 == replace(replace(replace(replace(str,
                    PunctRe, FALSE, Space),
                    AmpersandRe, FALSE, Space),
                    AndRe, FALSE, Space),
                    SpacesRe, FALSE, Space)
        n2 == replace(replace(n1, suffixRe, FALSE, Nothing),
                      SpacesRe, FALSE, Space)
        n3 == replace(n2, TrailingRe, TRUE, Nothing)
    IN  replace(n3, WordStartRe, FALSE, ToUpper)

\* The value of n when the function reaches its return statement.
\* // Remove punctuation and connectors
RemovePunctuation(str) ==
    trim(replace(replace(replace(replace(str,
            PunctRe, FALSE, Space),
            AmpersandRe, FALSE, Space),
            AndRe, FALSE, Space),
            SpacesRe, FALSE, Space))

\* // Strip legal suffixes
StripLegalSuffixes(n, suffixes) ==
    trim(replace(replace(n, SuffixRegExp(suffixes), FALSE, Nothing),
                 SpacesRe, FALSE, Space))

\* // Remove trailing connectors
RemoveTrailing(n) == trim(replace(n, TrailingRe, TRUE, Nothing))

\* // Title-case
\* A title-casing that lowers the name instead.
TitleCaseLower(n) == toLowerCase(n)

TitleCase(n) == replace(n, WordStartRe, FALSE, ToUpper)

StripName(str) ==
    TitleCase(RemoveTrailing(StripLegalSuffixes(RemovePunctuation(str),
                                                LEGAL_SUFFIXES)))

\* normalizeCorrespondent returning n in place of n || 'Unknown'.
normalizeCorrespondentNoFallback(v) ==
    IF ~v.truthy \/ v.type # "string" THEN Unknown
    ELSE LET a == AliasMatch(trim(toLowerCase(v.str)))
         IN  IF a # 0 THEN ALIASES[a][2] ELSE StripName(v.str)

\* function normalizeCorrespondent(name): the string it returns.
normalizeCorrespondent(v) ==
    IF ~v.truthy \/ v.type # "string" THEN Unknown
    ELSE LET a == AliasMatch(trim(toLowerCase(v.str)))
             n == StripName(v.str)
         IN  IF a # 0 THEN ALIASES[a][2]
             ELSE IF n # <<>> THEN n ELSE Unknown

\* Whether v.toLowerCase, v.replace and the other methods of
\* String.prototype exist: calling one on another value is a TypeError.
HasStringMethods(v) == v.type = "string"

TypeError == Chars("TypeError: name.toLowerCase is not a function")

\* normalizeCorrespondentThrows with the guard !name alone.
normalizeCorrespondentThrowsNoTypeof(v) ==
    /\ v.truthy
    /\ ~HasStringMethods(v)

\* function normalizeCorrespondent(name): whether it throws.  Line 43
\* returns for a falsy or non-string name; line 45 is the first method call
\* on name, and every later call is on the result of a string method.
normalizeCorrespondentThrows(v) ==
    /\ ~(~v.truthy \/ v.type # "string")
    /\ ~HasStringMethods(v)

\* function generateSlug(name): whether it throws; name.toLowerCase() is
\* its first call.
generateSlugThrows(v) == ~HasStringMethods(v)

\* The characters of the class [\\u0300-\\u036f]: a backslash, the letters
\* u and f, the digits 0, 3 and 6 and the range from 0 (U+0030) to the
\* backslash (U+005C).
SlugStripClass ==
    {BS, "u", "0", "3", "6", "f"}
        \cup Digit \cup {":", ";", "<", "=", ">", "?", "@"} \cup Upper \cup {"[", BS}

\* /[\\u0300-\\u036f]/g
MarksRe == << <<One(SlugStripClass)>> >>

\* /[^a-z0-9]+/g
NonAlnumRe == << <<PlusNot(Lower \cup Digit)>> >>

\* s.replace(/^-+|-+$/g, '')
stripHyphens(str) ==
    The({The({Between(s, keep) : keep \in {{i \in 1..Len(s) : s[i] # "-"}}}) :
         s \in {str}})

SlugMaxLen == 50

\* s.substring(0, n)
substring(str, n) == The({SubSeq(s, 1, Min(n, Len(s))) : s \in {str}})

\* function generateSlug(name), name a string.
generateSlug(s) ==
    substring(
        stripHyphens(
            replace(
                replace(normalizeNFD(toLowerCase(s)), MarksRe, FALSE, Nothing),
                NonAlnumRe, FALSE, Hyphen)),
        SlugMaxLen)

----------------------------------------------------------------------------
\* The values the callers pass: every short string over a small alphabet,
\* every short string of backslashes and plus signs, company names with and
\* without legal forms, words around the slug's length limit, and the values
\* that are not strings.

MaxLen == 3
MaxEscapeLen == 6
MaxOver == 1

ShortAlphabet == {" ", "\t", ".", ",", "a"}
EscapeAlphabet == {BS, "+"}

StringsUpTo(alphabet, n) == UNION {[1..k -> alphabet] : k \in 0..n}

Heads ==
    { Chars("Acme"), Chars("acme corp"), <<AUML>> \o Chars("rger"),
      Chars("Smith and Sons"), Chars("a1 fun"), Chars("Unknown"),
      Chars("Magenta Telekom"), Chars(" MAGENTA"), Chars("magent"),
      Chars("Boehringer Ingelheim RCV & Co"), Chars("boehringer ingelheim rcv"),
      Chars("Boehringer Ingelheim"),
      Chars("Magistrat Wien-MBA f.d. 21. Bezirk"), Chars("Magistrat Wien"),
      Chars("Wiener Linien GmbH & Co"), Chars("Wiener Linien") }

Tails ==
    { <<>>, Chars(" GmbH"), Chars(" GmbH & Co"), Chars(" & Co"),
      Chars(", Inc."), Chars(" +"), Chars(" ++"), Chars(" xyz "), Chars("bau") }

Phrases == {h \o t : h \in Heads, t \in Tails}

Repeat(c, n) == [i \in 1..n |-> c]

LongNames ==
    { Repeat("a", n) \o t :
        n \in (SlugMaxLen - 2)..(SlugMaxLen + MaxOver),
        t \in {<<>>, Chars(" b"), Chars(" & b"), Chars("-"), Chars(" bcd")} }

\* Names of digits and of the letters u and f.
Numbers == {Chars("42"), Chars("uf"), Chars("UFO 7"), Chars("4 you")}

Strings ==
    StringsUpTo(ShortAlphabet, MaxLen) \cup StringsUpTo(EscapeAlphabet, MaxEscapeLen)
        \cup Phrases \cup LongNames \cup Numbers

Values == {JsString(s) : s \in Strings} \cup NonStrings

NoWorkflow == <<>>

----------------------------------------------------------------------------
\* A caller that normalises a value, and then slugifies or normalises again
\* what it got, or slugifies a string directly.

Init ==
    /\ name \in Values
    /\ pc = "start"
    /\ canonical = <<>>
    /\ previous = <<>>
    /\ slug = <<>>
    /\ wf = NoWorkflow
    /\ wfpc = "none"
    /\ item = NoWorkflow
    /\ sent = <<>>
    /\ paths = <<>>
    /\ visited = <<>>
    /\ thrown = <<>>
    /\ runs = 0
    /\ calls = <<>>
    /\ frames = <<>>
    /\ tables = <<>>

Normalize ==
    /\ pc = "start"
    /\ IF normalizeCorrespondentThrows(name)
       THEN canonical' = canonical /\ pc' = "normalize threw" /\ thrown' = TypeError
       ELSE /\ canonical' = normalizeCorrespondent(name)
            /\ pc' = "normalized"
            /\ thrown' = thrown
    /\ UNCHANGED <<name, previous, slug, wf, wfpc, item, sent, paths, visited, runs,
                   calls, frames, tables>>

Renormalize ==
    /\ pc = "normalized"
    /\ previous' = canonical
    /\ canonical' = normalizeCorrespondent(JsString(canonical))
    /\ pc' = "renormalized"
    /\ UNCHANGED <<name, slug, wf, wfpc, item, sent,
                   paths, visited, thrown, runs, calls, frames, tables>>

Slugify ==
    /\ pc = "start"
    /\ IF generateSlugThrows(name)
       THEN slug' = slug /\ pc' = "slugify threw" /\ thrown' = TypeError
       ELSE slug' = generateSlug(name.str) /\ pc' = "slugified" /\ thrown' = thrown
    /\ UNCHANGED <<name, canonical, previous, wf, wfpc, item, sent, paths, visited, runs,
                   calls, frames, tables>>

\* const correspondentSlug = generateSlug(correspondent)
SlugifyCanonical ==
    /\ pc = "normalized"
    /\ IF generateSlugThrows(JsString(canonical))
       THEN slug' = slug /\ pc' = "canonical slugify threw" /\ thrown' = TypeError
       ELSE slug' = generateSlug(canonical) /\ pc' = "canonical slugified"
            /\ thrown' = thrown
    /\ UNCHANGED <<name, canonical, previous, wf, wfpc, item, sent, paths, visited, runs,
                   calls, frames, tables>>

Next == Normalize \/ Renormalize \/ Slugify \/ SlugifyCanonical

Spec == Init /\ [][Next]_vars

----------------------------------------------------------------------------
\* JSON objects are functions from field names to JavaScript values.

Get(obj, f) == IF f \in DOMAIN obj THEN obj[f] ELSE JsUndefined

\* {...base, ...over}
Spread(base, over) ==
    [f \in DOMAIN base \cup DOMAIN over |->
        IF f \in DOMAIN over THEN over[f] ELSE base[f]]

Put(obj, f, v) == Spread(obj, f :> v)

\* The string that + concatenation makes of a value.
ToStr(v) ==
    IF v.type = "string" THEN v.str
    ELSE IF v.type = "number" THEN <<DigitChars[v.num + 1]>>
    ELSE IF v.type = "boolean" THEN (IF v.truthy THEN Chars("true") ELSE Chars("false"))
    ELSE IF v.type = "undefined" THEN Chars("undefined")
    ELSE IF v.truthy THEN Chars("[object Object]")
    ELSE Chars("null")

\* sub in s (Python), s.includes(sub) (JavaScript)
Contains(s, sub) ==
    \E i \in 1..(Len(s) - Len(sub) + 1) : SubSeq(s, i, i + Len(sub) - 1) = sub

----------------------------------------------------------------------------
\* GENERATE_STORAGE_PATH_CODE and the code it replaces

DefaultCategory == Chars("reference-documents")
DateTitle == Chars("/{created_year}-{created_month}-{created_day}-{title}")

\* The node's code with pathName built from the raw correspondent.
GenerateStoragePathRawName(data) ==
    LET category == JsOr(Get(data, "storage_category"), JsString(DefaultCategory))
        rawCorrespondent == JsOr(Get(data, "correspondent_name"), JsString(Unknown))
        correspondent == normalizeCorrespondent(rawCorrespondent)
    IN  Spread(data,
            [correspondent_canonical |-> JsString(correspondent),
             storage_path_template |->
                 JsString(ToStr(category) \o <<"/">> \o generateSlug(correspondent)
                          \o DateTitle),
             storage_path_name |->
                 JsString(ToStr(category) \o Chars(" - ") \o ToStr(rawCorrespondent))])

\* GENERATE_STORAGE_PATH_CODE below the two functions: the json it returns
\* for the input json data.
GenerateStoragePath(data) ==
    LET category == JsOr(Get(data, "storage_category"), JsString(DefaultCategory))
        rawCorrespondent == JsOr(Get(data, "correspondent_name"), JsString(Unknown))
        correspondent == normalizeCorrespondent(rawCorrespondent)
        correspondentSlug == generateSlug(correspondent)
        pathTemplate == ToStr(category) \o <<"/">> \o correspondentSlug \o DateTitle
        pathName == ToStr(category) \o Chars(" - ") \o correspondent
    IN  Spread(data,
            [correspondent_canonical |-> JsString(correspondent),
             storage_path_template |-> JsString(pathTemplate),
             storage_path_name |-> JsString(pathName)])

\* GENERATE_STORAGE_PATH_CODE: whether it throws.
GenerateStoragePathThrows(data) ==
    LET rawCorrespondent == JsOr(Get(data, "correspondent_name"), JsString(Unknown))
    IN  \/ normalizeCorrespondentThrows(rawCorrespondent)
        \/ generateSlugThrows(JsString(normalizeCorrespondent(rawCorrespondent)))

\* gen_path_code calls toLowerCase on the correspondent: a TypeError when it
\* is not a string.
GenPathThrows(data) ==
    JsOr(Get(data, "correspondent_name"), JsString(Unknown)).type # "string"

\* gen_path_code of enhance_workflow: the json it returns.
GenPath(data) ==
    LET category == JsOr(Get(data, "storage_category"), JsString(DefaultCategory))
        correspondent == JsOr(Get(data, "correspondent_name"), JsString(Unknown)).str
        correspondentSlug ==
            stripHyphens(replace(toLowerCase(correspondent), NonAlnumRe, FALSE, Hyphen))
        pathTemplate == ToStr(category) \o <<"/">> \o correspondentSlug \o DateTitle
        pathName == ToStr(category) \o Chars(" - ") \o correspondent
    IN  Spread(data,
            [storage_path_template |-> JsString(pathTemplate),
             storage_path_name |-> JsString(pathName)])

----------------------------------------------------------------------------
\* The workflow document

\* The text of a code node is named by the Python variable that holds it.
NoParameters == [jsCode |-> <<>>, jsonBody |-> <<>>, url |-> <<>>, page_size |-> <<>>]

CheckCorrespondentUrl ==
    Chars("=https://your-paperless-domain.com/api/correspondents/?name__iexact={{ encodeURIComponent($json.correspondent_name) }}")

CreateCorrespondentBody ==
    Chars("={{ {\"name\": $(\"Consolidated Processor\").first().json.correspondent_name, \"matching_algorithm\": 6} }}")

\* The nodes enhance_workflow appends, with the parameters the fixes read.
EnhancedNodes ==
    [n \in {"Check Correspondent Exists", "Correspondent Exists?",
            "Create Correspondent", "Get Correspondent ID",
            "Generate Storage Path", "Check Storage Paths", "Match Storage Path",
            "Create Storage Path?", "Create Storage Path", "Get Storage Path ID",
            "Build Update Payload"} |->
        CASE n = "Check Correspondent Exists" ->
                 [NoParameters EXCEPT !.url = CheckCorrespondentUrl]
          [] n = "Create Correspondent" ->
                 [NoParameters EXCEPT !.jsonBody = CreateCorrespondentBody]
          [] n = "Get Correspondent ID" -> [NoParameters EXCEPT !.jsCode = Chars("get_corr_code")]
          [] n = "Generate Storage Path" -> [NoParameters EXCEPT !.jsCode = Chars("gen_path_code")]
          [] n = "Match Storage Path" -> [NoParameters EXCEPT !.jsCode = Chars("match_path_code")]
          [] n = "Get Storage Path ID" -> [NoParameters EXCEPT !.jsCode = Chars("get_sp_code")]
          [] n = "Build Update Payload" ->
                 [NoParameters EXCEPT !.jsCode = Chars("build_payload_code")]
          [] OTHER -> NoParameters]

\* conn: for each node its outputs in order, each the node it leads to.
EnhancedConnections ==
    [n \in {"Consolidated Processor"} \cup DOMAIN EnhancedNodes |->
        CASE n = "Consolidated Processor" -> <<"Check Correspondent Exists">>
          [] n = "Check Correspondent Exists" -> <<"Correspondent Exists?">>
          [] n = "Correspondent Exists?" ->
                 <<"Get Correspondent ID", "Create Correspondent">>
          [] n = "Create Correspondent" -> <<"Get Correspondent ID">>
          [] n = "Get Correspondent ID" -> <<"Generate Storage Path">>
          [] n = "Generate Storage Path" -> <<"Check Storage Paths">>
          [] n = "Check Storage Paths" -> <<"Match Storage Path">>
          [] n = "Match Storage Path" -> <<"Create Storage Path?">>
          [] n = "Create Storage Path?" ->
                 <<"Create Storage Path", "Get Storage Path ID">>
          [] n = "Create Storage Path" -> <<"Get Storage Path ID">>
          [] n = "Get Storage Path ID" -> <<"Build Update Payload">>
          [] n = "Build Update Payload" -> <<"Check if Updates Needed">>]

\* str.replace(old, new)
strReplace(s, old, new) == replace(s, <<Lit(old)>>, FALSE, Text(new))

\* Fix 4: the jsCode of 'Check Correspondent Exists' after the fix; the
\* node is an HTTP request and has none, which the fix reads as ''.
Fix4Code(current_code) ==
    IF Contains(current_code, Chars("correspondent_name"))
    THEN strReplace(current_code, Chars("data.correspondent_name"),
                    Chars("data.correspondent_canonical || data.correspondent_name"))
    ELSE current_code

\* Fix 5: the jsonBody of 'Create Correspondent' after the fix.
Fix5Body(json_body) ==
    IF Contains(json_body, Chars("correspondent_name"))
    THEN strReplace(json_body, Chars("$json.correspondent_name"),
                    Chars("$json.correspondent_canonical"))
    ELSE json_body

\* apply_fixes: the nodes of the workflow it returns.
FixedNodes(nodes) ==
    [n \in DOMAIN nodes |->
        CASE n = "Check Storage Paths" -> [nodes[n] EXCEPT !.page_size = Chars("1000")]
          [] n = "Generate Storage Path" ->
                 [nodes[n] EXCEPT !.jsCode = Chars("GENERATE_STORAGE_PATH_CODE")]
          [] n = "Get Storage Path ID" ->
                 [nodes[n] EXCEPT !.jsCode = Chars("GET_STORAGE_PATH_ID_CODE")]
          [] n = "Check Correspondent Exists" ->
                 [nodes[n] EXCEPT !.jsCode = Fix4Code(nodes[n].jsCode)]
          [] n = "Create Correspondent" ->
                 [nodes[n] EXCEPT !.jsonBody = Fix5Body(nodes[n].jsonBody)]
          [] OTHER -> nodes[n]]

\* apply_fixes: fixes_applied.
FixesApplied(nodes) ==
    <<"Pagination fix (page_size=1000)", "Correspondent normalization",
      "Unique constraint error handling">>
    \o (IF nodes["Check Correspondent Exists"].jsCode
              # Fix4Code(nodes["Check Correspondent Exists"].jsCode)
        THEN <<"Correspondent matching uses canonical name">> ELSE <<>>)
    \o (IF Contains(nodes["Create Correspondent"].jsonBody, Chars("correspondent_name"))
        THEN <<"Correspondent creation uses canonical name">> ELSE <<>>)

\* The value an expression of a node's parameters gives for its name: the
\* expression names the field, $json is the node's input and $("...") the
\* output of the named node.
EvalName(expr, outputs) ==
    IF Contains(expr, Chars("$(\"Consolidated Processor\").first().json.correspondent_name"))
    THEN Get(outputs["Consolidated Processor"], "correspondent_name")
    ELSE IF Contains(expr, Chars("$(\"Consolidated Processor\").first().json.correspondent_canonical"))
    THEN Get(outputs["Consolidated Processor"], "correspondent_canonical")
    ELSE IF Contains(expr, Chars("$json.correspondent_canonical"))
    THEN Get(outputs["$input"], "correspondent_canonical")
    ELSE IF Contains(expr, Chars("$json.correspondent_name"))
    THEN Get(outputs["$input"], "correspondent_name")
    ELSE JsUndefined

----------------------------------------------------------------------------
\* The workflow is built, fixed and then run on one document.

Absent == [type |-> "absent", str |-> <<>>, num |-> 0, truthy |-> FALSE]

CorrespondentNames ==
    {JsString(h) : h \in Heads} \cup {JsString(h \o Chars(" GmbH & Co")) : h \in Heads}
        \cup {JsString(<<>>), JsString(Chars(".")), JsString(Chars("a.b  c")),
              JsNull, JsInt(7), Absent}

StorageCategories ==
    {JsString(Chars("finance")), JsString(<<>>), JsNull, JsInt(7), Absent}

\* What 'Consolidated Processor' hands on for a document.
ProcessorItem(correspondent, category) ==
    [f \in {"document_id", "storage_path_template"}
           \cup (IF correspondent = Absent THEN {} ELSE {"correspondent_name"})
           \cup (IF category = Absent THEN {} ELSE {"storage_category"}) |->
        CASE f = "document_id" -> JsInt(1)
          [] f = "storage_path_template" -> JsString(Chars("finance/old"))
          [] f = "correspondent_name" -> correspondent
          [] f = "storage_category" -> category]

\* The decimal digits of n.
RECURSIVE ToDigits(_)
ToDigits(n) ==
    IF n < 10 THEN <<DigitChars[n + 1]>>
    ELSE ToDigits(n \div 10) \o <<DigitChars[(n % 10) + 1]>>

\* 'page_size': '1000'
PageSize == 1000

MaxRuns == 2

\* A storage path of the server; count > 1 makes the record stand for that
\* many consecutive storage paths that differ in their number only.
StoragePath(id, pathName, pathTemplate) ==
    [id |-> id, name |-> pathName, path |-> pathTemplate, count |-> 1]

Others(n) ==
    [id |-> 1, name |-> Chars("archive ") \o ToDigits(n),
     path |-> Chars("archive/") \o ToDigits(n), count |-> n]

AcmeName == Chars("finance - Acme")
AcmeTemplate == Chars("finance/acme") \o DateTitle

\* What the server may hold before the document arrives.
ServerLists ==
    { <<>>,
      <<Others(PageSize - 1)>>,
      <<Others(PageSize)>>,
      <<StoragePath(PageSize + 1, AcmeName, Chars("custom/{title}"))>>,
      <<StoragePath(PageSize + 1, Chars("Acme (old)"), AcmeTemplate),
        StoragePath(PageSize + 2, AcmeName, Chars("custom/{title}"))>> }

\* The number of storage paths in a list.
RECURSIVE Count(_)
Count(list) == IF list = <<>> THEN 0 ELSE list[1].count + Count(Tail(list))

\* The id the server gives the next storage path.
NextId(list) ==
    1 + (CHOOSE m \in {0} \cup {list[i].id + list[i].count - 1 : i \in DOMAIN list} :
            \A i \in DOMAIN list : list[i].id + list[i].count - 1 <= m)

\* The first size storage paths of a list: one page.
Page(list, size) ==
    LET whole == {k \in 0..Len(list) : Count(SubSeq(list, 1, k)) <= size}
    IN  SubSeq(list, 1, CHOOSE k \in whole : \A j \in whole : j <= k)

\* Whether the server holds a storage path of that name or that path.
Taken(list, pathName, pathTemplate) ==
    \E i \in DOMAIN list : list[i].name = pathName \/ list[i].path = pathTemplate

WfInit ==
    /\ name = JsUndefined
    /\ pc = "none"
    /\ canonical = <<>>
    /\ previous = <<>>
    /\ slug = <<>>
    /\ wf = NoWorkflow
    /\ wfpc = "loaded"
    /\ item = NoWorkflow
    /\ sent = <<>>
    /\ paths \in ServerLists
    /\ visited = <<>>
    /\ thrown = <<>>
    /\ runs = 0
    /\ calls = <<>>
    /\ frames = <<>>
    /\ tables = <<>>

Untouched == UNCHANGED <<name, pc, canonical, previous, slug, calls, frames, tables>>

\* enhance_workflow.py
EnhanceWorkflow ==
    /\ wfpc = "loaded"
    /\ wf' = [nodes |-> EnhancedNodes, connections |-> EnhancedConnections,
              fixes_applied |-> <<>>]
    /\ wfpc' = "built"
    /\ UNCHANGED <<item, sent, paths, visited, thrown, runs>>
    /\ Untouched

\* apply_fixes
ApplyFixes ==
    /\ wfpc = "built"
    /\ wf' = [wf EXCEPT !.nodes = FixedNodes(wf.nodes),
                        !.fixes_applied = FixesApplied(wf.nodes)]
    /\ wfpc' = "fixed"
    /\ UNCHANGED <<item, sent, paths, visited, thrown, runs>>
    /\ Untouched

\* The node output number out of node leads to.
Target(node, out) == wf.connections[node][out]

\* The node ran: its json is kept under its name and is the next node's input.
Ran(node, json) == Put(Put(item, node, json), "$input", json)

\* IfOutput with the two branches exchanged.
IfOutputSwapped(holds) == IF holds THEN 2 ELSE 1

\* The output an IF node sends its item to: the first of "main" when the
\* condition holds (TRUE), the second when it does not (FALSE).
IfOutput(holds) == IF holds THEN 1 ELSE 2

\* The node at wfpc returned json on its output number out.
Return(json, out) ==
    /\ item' = Ran(wfpc, json)
    /\ visited' = Append(visited, wfpc)
    /\ wfpc' = Target(wfpc, out)
    /\ thrown' = thrown

\* The node at wfpc threw: the execution ends with the error.
Throw(message) ==
    /\ item' = item
    /\ visited' = Append(visited, wfpc)
    /\ wfpc' = "failed"
    /\ thrown' = message

ConsolidatedProcessor ==
    /\ wfpc \in {"built", "fixed"}
    /\ \E correspondent \in CorrespondentNames, category \in StorageCategories :
          item' = ("Consolidated Processor" :> ProcessorItem(correspondent, category))
                  @@ ("$input" :> ProcessorItem(correspondent, category))
    /\ wfpc' = Target("Consolidated Processor", 1)
    /\ visited' = <<"Consolidated Processor">>
    /\ runs' = 1
    /\ UNCHANGED <<wf, sent, paths, thrown>>
    /\ Untouched

DuplicateError ==
    Chars("Storage path creation failed due to duplicate. Please re-upload document or check \"Check Storage Paths\" pagination settings.")

\* 'Re-upload the document': the document is processed again after an
\* execution that ended with the duplicate error.
Rerun ==
    /\ wfpc = "failed"
    /\ thrown = DuplicateError
    /\ runs < MaxRuns
    /\ item' = ("Consolidated Processor" :> item["Consolidated Processor"])
               @@ ("$input" :> item["Consolidated Processor"])
    /\ wfpc' = Target("Consolidated Processor", 1)
    /\ visited' = <<"Consolidated Processor">>
    /\ thrown' = <<>>
    /\ runs' = runs + 1
    /\ UNCHANGED <<wf, sent, paths>>
    /\ Untouched

\* GET /api/correspondents/?name__iexact=...: the server answers with the
\* number of correspondents of that name and, if any, the first one.
CheckCorrespondentExists ==
    /\ wfpc = "Check Correspondent Exists"
    /\ sent' = Append(sent, [node |-> wfpc,
                             name |-> EvalName(wf.nodes[wfpc].url, item)])
    /\ \E found \in BOOLEAN :
          Return(IF found
                 THEN ("count" :> JsInt(1)) @@ ("results[0].id" :> JsInt(2))
                 ELSE ("count" :> JsInt(0)), 1)
    /\ UNCHANGED <<wf, paths, runs>>
    /\ Untouched

\* IF $json.count > 0
CorrespondentExists ==
    /\ wfpc = "Correspondent Exists?"
    /\ Return(item["$input"], IfOutput(Get(item["$input"], "count").num > 0))
    /\ UNCHANGED <<wf, sent, paths, runs>>
    /\ Untouched

\* POST /api/correspondents/ with onError continueRegularOutput: the server
\* creates the correspondent or refuses.
CreateCorrespondent ==
    /\ wfpc = "Create Correspondent"
    /\ sent' = Append(sent, [node |-> wfpc,
                             name |-> EvalName(wf.nodes[wfpc].jsonBody, item)])
    /\ \E created \in BOOLEAN :
          Return(IF created
                 THEN ("id" :> JsInt(3))
                 ELSE ("statusCode" :> JsInt(400))
                      @@ ("error" :> JsString(Chars("Bad Request"))), 1)
    /\ UNCHANGED <<wf, paths, runs>>
    /\ Untouched

\* get_corr_code: whether it throws.
GetCorrespondentIDThrows(checkResult, createResult) ==
    \/ Get(createResult, "error").truthy
    \/ Get(createResult, "statusCode").num >= 400
    \/ /\ ~(Get(checkResult, "count").num > 0)
       /\ ~Get(createResult, "id").truthy

\* get_corr_code: the message of the error it throws.
GetCorrespondentIDError(createResult) ==
    IF Get(createResult, "error").truthy \/ Get(createResult, "statusCode").num >= 400
    THEN Chars("Create Correspondent HTTP request failed: ")
             \o ToStr(JsOr(JsOr(Get(createResult, "message"), Get(createResult, "error")),
                           JsString(Chars("Unknown error"))))
    ELSE Chars("Failed to get correspondent ID")

\* get_corr_code: the json it returns.
GetCorrespondentIDCode(data, checkResult, createResult) ==
    Spread(data,
        IF Get(checkResult, "count").num > 0
        THEN [correspondent_id |-> Get(checkResult, "results[0].id"),
              correspondent_action |-> JsString(Chars("matched"))]
        ELSE [correspondent_id |-> Get(createResult, "id"),
              correspondent_action |-> JsString(Chars("created"))])

GetCorrespondentID ==
    /\ wfpc = "Get Correspondent ID"
    /\ IF GetCorrespondentIDThrows(item["Check Correspondent Exists"], item["$input"])
       THEN Throw(GetCorrespondentIDError(item["$input"]))
       ELSE Return(GetCorrespondentIDCode(item["Consolidated Processor"],
                       item["Check Correspondent Exists"], item["$input"]), 1)
    /\ UNCHANGED <<wf, sent, paths, runs>>
    /\ Untouched

GenerateStoragePathNode ==
    /\ wfpc = "Generate Storage Path"
    /\ IF wf.nodes[wfpc].jsCode = Chars("GENERATE_STORAGE_PATH_CODE")
       THEN IF GenerateStoragePathThrows(item["$input"])
            THEN Throw(TypeError)
            ELSE Return(GenerateStoragePath(item["$input"]), 1)
       ELSE IF GenPathThrows(item["$input"])
       THEN Throw(Chars("TypeError: correspondent.toLowerCase is not a function"))
       ELSE Return(GenPath(item["$input"]), 1)
    /\ UNCHANGED <<wf, sent, paths, runs>>
    /\ Untouched

\* The page size of the request of 'Check Storage Paths': the page_size it
\* sends, or what the server takes when none is sent.
PageSizes(parameters) ==
    IF parameters.page_size = Chars("1000") THEN {PageSize} ELSE {1, PageSize}

\* GET /api/storage_paths/ with onError continueRegularOutput: the server
\* answers with the first page of its list or fails.
CheckStoragePaths ==
    /\ wfpc = "Check Storage Paths"
    /\ \/ \E size \in PageSizes(wf.nodes[wfpc]) :
             Return([results |-> Page(paths, size)], 1)
       \/ Return(("error" :> JsString(Chars("Service Unavailable"))), 1)
    /\ UNCHANGED <<wf, sent, paths, runs>>
    /\ Untouched

\* A find that looks at the name only.
FindExistingByName(results, targetName, targetTemplate) ==
    LET hit == {i \in DOMAIN results : results[i].name = targetName}
    IN  IF hit = {} THEN 0 ELSE CHOOSE i \in hit : \A j \in hit : i <= j

\* match_path_code: allPaths.results.find(...), 0 if it finds none.
FindExisting(results, targetName, targetTemplate) ==
    LET hit == {i \in DOMAIN results :
                   results[i].name = targetName \/ results[i].path = targetTemplate}
    IN  IF hit = {} THEN 0 ELSE CHOOSE i \in hit : \A j \in hit : i <= j

\* match_path_code: the json it returns.
MatchStoragePathCode(allPaths, data) ==
    LET existing == FindExisting(allPaths.results,
                                 ToStr(Get(data, "storage_path_name")),
                                 ToStr(Get(data, "storage_path_template")))
    IN  IF existing # 0
        THEN Spread(data, [storage_path_id |-> JsInt(allPaths.results[existing].id),
                           storage_path_exists |-> JsTrue])
        ELSE Spread(data, [storage_path_id |-> JsNull,
                           storage_path_exists |-> JsFalse])

MatchStoragePath ==
    /\ wfpc = "Match Storage Path"
    /\ IF "results" \notin DOMAIN item["$input"]
       THEN Throw(Chars("TypeError: Cannot read properties of undefined (reading 'find')"))
       ELSE Return(MatchStoragePathCode(item["$input"], item["Generate Storage Path"]), 1)
    /\ UNCHANGED <<wf, sent, paths, runs>>
    /\ Untouched

\* IF $json.storage_path_exists is false
CreateStoragePathIf ==
    /\ wfpc = "Create Storage Path?"
    /\ Return(item["$input"],
              IfOutput(Get(item["$input"], "storage_path_exists") = JsFalse))
    /\ UNCHANGED <<wf, sent, paths, runs>>
    /\ Untouched

\* What the server answers when the name or the path is taken.
DuplicateAnswers ==
    { ("statusCode" :> JsInt(400))
          @@ ("error" :> JsString(Chars("Storage path with this name already exists."))),
      ("statusCode" :> JsInt(400))
          @@ ("message" :> JsString(Chars("UNIQUE constraint failed: documents_storagepath.name"))) }

ServerError ==
    ("statusCode" :> JsInt(500)) @@ ("error" :> JsString(Chars("Server Error")))

\* POST /api/storage_paths/ with onError continueRegularOutput: the server
\* refuses a name or path it holds, and otherwise creates the storage path
\* or fails.
CreateStoragePath ==
    /\ wfpc = "Create Storage Path"
    /\ sent' = Append(sent, [node |-> wfpc,
                             name |-> Get(item["$input"], "storage_path_name")])
    /\ LET pathName == ToStr(Get(item["$input"], "storage_path_name"))
           pathTemplate == ToStr(Get(item["$input"], "storage_path_template"))
       IN  IF Taken(paths, pathName, pathTemplate)
           THEN /\ \E answer \in DuplicateAnswers : Return(answer, 1)
                /\ paths' = paths
           ELSE \/ /\ Return([id |-> JsInt(NextId(paths)),
                              name |-> JsString(pathName),
                              path |-> JsString(pathTemplate)], 1)
                   /\ paths' = Append(paths,
                                  StoragePath(NextId(paths), pathName, pathTemplate))
                \/ /\ Return(ServerError, 1)
                   /\ paths' = paths
    /\ UNCHANGED <<wf, runs>>
    /\ Untouched

\* Another execution of the workflow, on a document with the same target,
\* creates the storage path after this execution has read the list.
OtherExecutionCreates ==
    /\ wfpc \in {"Match Storage Path", "Create Storage Path?", "Create Storage Path"}
    /\ LET pathName == ToStr(Get(item["Generate Storage Path"], "storage_path_name"))
           pathTemplate == ToStr(Get(item["Generate Storage Path"], "storage_path_template"))
       IN  /\ ~Taken(paths, pathName, pathTemplate)
           /\ paths' = Append(paths, StoragePath(NextId(paths), pathName, pathTemplate))
    /\ UNCHANGED <<wf, wfpc, item, sent, visited, thrown, runs>>
    /\ Untouched

NoIdError == Chars("Failed to get storage path ID - check previous nodes")

\* GET_STORAGE_PATH_ID_CODE: createResult.error || createResult.message || ''
ErrorMsg(createResult) ==
    JsOr(JsOr(Get(createResult, "error"), Get(createResult, "message")), JsString(<<>>))

\* GET_STORAGE_PATH_ID_CODE: the message of the error it throws, <<>> if it
\* returns.
GetStoragePathIDError(matchResult, createResult) ==
    IF Get(createResult, "statusCode").type = "number"
           /\ Get(createResult, "statusCode").num >= 400
    THEN LET errorMsg == ErrorMsg(createResult)
         IN  IF errorMsg.type # "string"
             THEN Chars("TypeError: errorMsg.toLowerCase is not a function")
             ELSE IF \/ Contains(toLowerCase(errorMsg.str), Chars("unique constraint"))
                     \/ Contains(toLowerCase(errorMsg.str), Chars("already exists"))
             THEN DuplicateError
             ELSE Chars("Create Storage Path HTTP request failed: ") \o errorMsg.str
    ELSE IF Get(matchResult, "storage_path_id").truthy THEN <<>>
    ELSE IF Get(createResult, "id").truthy THEN <<>>
    ELSE NoIdError

\* GetStoragePathIDCode with the ID of 'Create Storage Path' looked at first.
GetStoragePathIDCodeCreatedFirst(matchResult, createResult) ==
    Spread(matchResult,
        IF Get(createResult, "id").truthy
        THEN [storage_path_id |-> Get(createResult, "id"),
              storage_path_source |-> JsString(Chars("created"))]
        ELSE [storage_path_id |-> Get(matchResult, "storage_path_id"),
              storage_path_source |-> JsString(Chars("existing"))])

\* GET_STORAGE_PATH_ID_CODE: the json it returns.
GetStoragePathIDCode(matchResult, createResult) ==
    Spread(matchResult,
        IF Get(matchResult, "storage_path_id").truthy
        THEN [storage_path_id |-> Get(matchResult, "storage_path_id"),
              storage_path_source |-> JsString(Chars("existing"))]
        ELSE IF Get(createResult, "id").truthy
        THEN [storage_path_id |-> Get(createResult, "id"),
              storage_path_source |-> JsString(Chars("created"))]
        ELSE [storage_path_id |-> JsNull,
              storage_path_source |-> JsString(Chars("unknown"))])

\* get_sp_code: the message of the error it throws, <<>> if it returns.
GetSpError(matchResult, createResult) ==
    IF \/ Get(createResult, "error").truthy
       \/ /\ Get(createResult, "statusCode").type = "number"
          /\ Get(createResult, "statusCode").num >= 400
    THEN Chars("Create Storage Path HTTP request failed: ")
             \o ToStr(JsOr(JsOr(Get(createResult, "message"), Get(createResult, "error")),
                           JsString(Chars("Unknown error"))))
    ELSE IF Get(matchResult, "storage_path_id").truthy THEN <<>>
    ELSE IF Get(createResult, "id").truthy THEN <<>>
    ELSE Chars("Failed to get storage path ID - check Create Storage Path node")

GetStoragePathID ==
    /\ wfpc = "Get Storage Path ID"
    /\ LET matchResult == item["Match Storage Path"]
           createResult == item["$input"]
           error == IF wf.nodes[wfpc].jsCode = Chars("GET_STORAGE_PATH_ID_CODE")
                    THEN GetStoragePathIDError(matchResult, createResult)
                    ELSE GetSpError(matchResult, createResult)
       IN  IF error # <<>> THEN Throw(error)
           ELSE Return(GetStoragePathIDCode(matchResult, createResult), 1)
    /\ UNCHANGED <<wf, sent, paths, runs>>
    /\ Untouched

\* build_payload_code of enhance_workflow: payload.
UpdatePayload(data) ==
    [f \in {k \in {"correspondent", "storage_path"} : Get(data, k \o "_id").truthy} |->
        Get(data, f \o "_id")]

BuildUpdatePayload ==
    /\ wfpc = "Build Update Payload"
    /\ Return([document_id |-> Get(item["$input"], "document_id"),
               update_payload |-> UpdatePayload(item["$input"]),
               has_updates |-> IF DOMAIN UpdatePayload(item["$input"]) # {}
                               THEN JsTrue ELSE JsFalse], 1)
    /\ UNCHANGED <<wf, sent, paths, runs>>
    /\ Untouched

WfNext ==
    \/ EnhanceWorkflow
    \/ ApplyFixes
    \/ ConsolidatedProcessor
    \/ Rerun
    \/ CheckCorrespondentExists
    \/ CorrespondentExists
    \/ CreateCorrespondent
    \/ GetCorrespondentID
    \/ GenerateStoragePathNode
    \/ CheckStoragePaths
    \/ MatchStoragePath
    \/ CreateStoragePathIf
    \/ CreateStoragePath
    \/ OtherExecutionCreates
    \/ GetStoragePathID
    \/ BuildUpdatePayload

SpecWorkflow == WfInit /\ [][WfNext]_vars

----------------------------------------------------------------------------
\* build_v14_workflow.py: the v13.1 workflow it reads and the v14 workflow
\* it writes.

V13Names ==
    {"Consolidated Processor", "Check if Updates Needed", "Update Document",
     "Fetch Available Tags", "Map Tag Names to IDs"}

\* A connections object over the nodes: each node leads to at most one
\* other node.
ConnectionsOver(nodes) ==
    UNION { {[n \in from |-> <<to[n]>>] : to \in [from -> nodes]} : from \in SUBSET nodes }

NoSelfLoop(connections) == \A n \in DOMAIN connections : connections[n][1] # n

V13Workflows ==
    UNION { {[nodes |-> [n \in names |-> NoParameters], connections |-> c,
              fixes_applied |-> <<>>] :
                c \in {x \in ConnectionsOver(names) : NoSelfLoop(x)}} :
            names \in {s \in SUBSET V13Names :
                          "Consolidated Processor" \in s \/ "Check if Updates Needed" \in s} }

BuildInit ==
    /\ name = JsUndefined
    /\ pc = "none"
    /\ canonical = <<>>
    /\ previous = <<>>
    /\ slug = <<>>
    /\ wf \in V13Workflows
    /\ wfpc = "v13.1 loaded"
    /\ item = NoWorkflow
    /\ sent = <<>>
    /\ paths = <<>>
    /\ visited = <<>>
    /\ thrown = <<>>
    /\ runs = 0
    /\ calls = <<>>
    /\ frames = <<>>
    /\ tables = <<>>

\* STEP 2 and STEP 2.5: the nodes after the two appends.
V14Nodes(nodes) ==
    ("Entity Manager" :> [NoParameters EXCEPT !.jsCode = Chars("entity_manager_code")])
    @@ ("Build Update Payload" :> [NoParameters EXCEPT !.jsCode = Chars("build_payload_code")])
    @@ nodes

\* STEP 3: the script looks the two nodes up and prints what has to be
\* connected by hand; workflow['connections'] is not assigned.
V14Connections(connections) == connections

\* The script writes paperless_workflow-v14-entity-based.json.
BuildV14Workflow ==
    /\ wfpc = "v13.1 loaded"
    /\ {"Consolidated Processor", "Check if Updates Needed"} \subseteq DOMAIN wf.nodes
    /\ wf' = [wf EXCEPT !.nodes = V14Nodes(wf.nodes),
                        !.connections = V14Connections(wf.connections)]
    /\ wfpc' = "v14 written"
    /\ UNCHANGED <<item, sent, paths, visited, thrown, runs>>
    /\ Untouched

\* sys.exit(1): a node the script needs is missing.
BuildV14Exit ==
    /\ wfpc = "v13.1 loaded"
    /\ ~({"Consolidated Processor", "Check if Updates Needed"} \subseteq DOMAIN wf.nodes)
    /\ wfpc' = "exit 1"
    /\ UNCHANGED <<wf, item, sent, paths, visited, thrown, runs>>
    /\ Untouched

BuildNext == BuildV14Workflow \/ BuildV14Exit

SpecBuild == BuildInit /\ [][BuildNext]_vars

----------------------------------------------------------------------------
\* Callers that run normalizeCorrespondent and generateSlug at the same
\* time: a call advances one statement at a time, and the statements of
\* different calls interleave in any order.

NumCallers == 2

Callers == 1..NumCallers

CallArgs ==
    { JsString(Chars(" MAGENTA GmbH")), JsString(Chars("a.b , c")),
      JsString(<<BS, "+", BS, BS, "+", BS>>), JsInt(7) }

Idle == [fn |-> "", arg |-> JsUndefined, at |-> "idle", result |-> JsUndefined]

NoFrame == [lowerName |-> <<>>, n |-> <<>>]

\* FrameOf with one frame for all calls.
FrameOfShared(c) == 1

\* The frame that holds the variables of the call of caller c: const and
\* let declare them anew in every call.
FrameOf(c) == c

CallersInit ==
    /\ name = JsUndefined
    /\ pc = "none"
    /\ canonical = <<>>
    /\ previous = <<>>
    /\ slug = <<>>
    /\ wf = NoWorkflow
    /\ wfpc = "none"
    /\ item = NoWorkflow
    /\ sent = <<>>
    /\ paths = <<>>
    /\ visited = <<>>
    /\ thrown = <<>>
    /\ runs = 0
    /\ calls = [c \in Callers |-> Idle]
    /\ frames = [c \in Callers |-> NoFrame]
    /\ tables = [LEGAL_SUFFIXES |-> LEGAL_SUFFIXES, ALIASES |-> ALIASES]

CallersUntouched ==
    UNCHANGED <<name, pc, canonical, previous, slug, wf, wfpc, item, sent,
                paths, visited, thrown, runs, tables>>

\* The call of caller c goes to statement at.
Goto(c, at) == calls' = [calls EXCEPT ![c].at = at]

\* The call of caller c returns value.
ReturnValue(c, value) ==
    calls' = [calls EXCEPT ![c].at = "returned", ![c].result = JsString(value)]

\* A caller that is not in a call calls one of the two functions.
Call(c) ==
    /\ calls[c].at \in {"idle", "returned"}
    /\ \E fn \in {"normalizeCorrespondent", "generateSlug"}, arg \in CallArgs :
          /\ fn = "generateSlug" => IsStringValue(arg)
          /\ calls' = [calls EXCEPT ![c] = [fn |-> fn, arg |-> arg, at |-> "entry",
                                            result |-> JsUndefined]]
    /\ frames' = [frames EXCEPT ![FrameOf(c)] = NoFrame]
    /\ CallersUntouched

\* if (!name || typeof name !== 'string') return 'Unknown';
Guard(c) ==
    /\ calls[c].fn = "normalizeCorrespondent"
    /\ calls[c].at = "entry"
    /\ IF ~calls[c].arg.truthy \/ calls[c].arg.type # "string"
       THEN ReturnValue(c, Unknown)
       ELSE Goto(c, "lowerName")
    /\ UNCHANGED frames
    /\ CallersUntouched

\* const lowerName = name.toLowerCase().trim();
LowerName(c) ==
    /\ calls[c].at = "lowerName"
    /\ frames' = [frames EXCEPT ![FrameOf(c)].lowerName = trim(toLowerCase(calls[c].arg.str))]
    /\ Goto(c, "aliases")
    /\ CallersUntouched

\* for (const [key, value] of Object.entries(ALIASES)) ...
CheckAliases(c) ==
    /\ calls[c].at = "aliases"
    /\ LET a == AliasMatchIn(tables.ALIASES, frames[FrameOf(c)].lowerName)
       IN  IF a # 0 THEN ReturnValue(c, tables.ALIASES[a][2]) ELSE Goto(c, "punctuation")
    /\ UNCHANGED frames
    /\ CallersUntouched

\* The call of caller c assigns value to n and goes to statement at.
Assign(c, value, at) ==
    /\ frames' = [frames EXCEPT ![FrameOf(c)].n = value]
    /\ Goto(c, at)
    /\ CallersUntouched

\* let n = name.replace(/[.,]/g, ' ')...trim();
Punctuation(c) ==
    /\ calls[c].at = "punctuation"
    /\ Assign(c, RemovePunctuation(calls[c].arg.str), "suffixes")

\* n = n.replace(suffixRe, '').replace(/\\s+/g, ' ').trim();
Suffixes(c) ==
    /\ calls[c].at = "suffixes"
    /\ Assign(c, StripLegalSuffixes(frames[FrameOf(c)].n, tables.LEGAL_SUFFIXES), "trailing")

\* n = n.replace(/\\s*[&+]\\s*$/g, '').trim();
Trailing(c) ==
    /\ calls[c].at = "trailing"
    /\ Assign(c, RemoveTrailing(frames[FrameOf(c)].n), "title")

\* n = n.replace(/\\b\\w/g, c => c.toUpperCase());
Title(c) ==
    /\ calls[c].at = "title"
    /\ Assign(c, TitleCase(frames[FrameOf(c)].n), "return")

\* return n || 'Unknown';
ReturnN(c) ==
    /\ calls[c].at = "return"
    /\ ReturnValue(c, IF frames[FrameOf(c)].n # <<>> THEN frames[FrameOf(c)].n ELSE Unknown)
    /\ UNCHANGED frames
    /\ CallersUntouched

\* function generateSlug(name): one return statement.
Slug(c) ==
    /\ calls[c].fn = "generateSlug"
    /\ calls[c].at = "entry"
    /\ ReturnValue(c, generateSlug(calls[c].arg.str))
    /\ UNCHANGED frames
    /\ CallersUntouched

CallersNext ==
    \E c \in Callers :
        \/ Call(c)
        \/ Guard(c)
        \/ LowerName(c)
        \/ CheckAliases(c)
        \/ Punctuation(c)
        \/ Suffixes(c)
        \/ Trailing(c)
        \/ Title(c)
        \/ ReturnN(c)
        \/ Slug(c)

SpecCallers == CallersInit /\ [][CallersNext]_vars

----------------------------------------------------------------------------
\* The 'Get Storage Path ID' node of the fixed workflow on its own, run on
\* any output of 'Match Storage Path' and any input item.

MatchResults ==
    { ("storage_path_name" :> JsString(AcmeName)) @@ extra :
        extra \in { <<>>, ("storage_path_id" :> JsNull), ("storage_path_id" :> JsInt(0)),
                    ("storage_path_id" :> JsInt(5)) } }

\* The objects with some of the fields, each with one of its values.
Objects(values) ==
    UNION { [fields -> UNION {values[f] : f \in fields}] : fields \in SUBSET DOMAIN values }

WellTyped(obj, values) == \A f \in DOMAIN obj : obj[f] \in values[f]

CreateResults ==
    LET values == [statusCode |-> {JsInt(200), JsInt(399), JsInt(400), JsInt(500)},
                   error |-> {JsString(Chars("Storage path with this name ALREADY EXISTS.")),
                              JsString(Chars("Bad Request")), JsObject, JsNull},
                   message |-> {JsString(Chars("UNIQUE constraint failed")),
                                JsString(Chars("Not unique"))},
                   id |-> {JsInt(9), JsNull}]
    IN  {obj \in Objects(values) : WellTyped(obj, values)}

NodeInit ==
    /\ name = JsUndefined
    /\ pc = "none"
    /\ canonical = <<>>
    /\ previous = <<>>
    /\ slug = <<>>
    /\ wf = [nodes |-> FixedNodes(EnhancedNodes), connections |-> EnhancedConnections,
             fixes_applied |-> FixesApplied(EnhancedNodes)]
    /\ wfpc = "Get Storage Path ID"
    /\ \E matchResult \in MatchResults, createResult \in CreateResults :
          item = ("Match Storage Path" :> matchResult)
                 @@ ("Create Storage Path" :> createResult)
                 @@ ("$input" :> createResult)
    /\ sent = <<>>
    /\ paths = <<>>
    /\ visited = <<>>
    /\ thrown = <<>>
    /\ runs = 1
    /\ calls = <<>>
    /\ frames = <<>>
    /\ tables = <<>>

NodeNext == GetStoragePathID

SpecNode == NodeInit /\ [][NodeNext]_vars

----------------------------------------------------------------------------
\* new_correspondent_extraction: the block that fix_correspondent_extraction.py
\* and fix_both_nodes_final.py put into 'Consolidated Processor' (the same
\* text in both).

\* A confidence is a number in hundredths: Hundredths(60) is 0.6.
Hundredths(h) == [type |-> "number", str |-> <<>>, num |-> h, truthy |-> h # 0]

\* The 0.6 of the comparison, in hundredths.
ConfidenceThreshold == 60

\* ToNumber of a confidence that is a number, null or missing, in
\* hundredths: the set is empty when it is NaN.
ToNumber(v) ==
    CASE v.type = "number"    -> {v.num}
      [] v.type = "undefined" -> {}
      [] v = JsNull           -> {0}

\* A comparison that lets the threshold itself pass.
GreaterThanThresholdOrEqual(v) == \E n \in ToNumber(v) : n >= ConfidenceThreshold

\* processingData.correspondent.confidence > 0.6
GreaterThanThreshold(v) == \E n \in ToNumber(v) : n > ConfidenceThreshold

\* processingData is kept flat: "correspondent.name" is what
\* processingData.correspondent?.name yields, undefined when there is no
\* correspondent object or no name in it, and the same for the other fields.
ExtractedNames ==
    { JsUndefined, JsNull, JsString(<<>>), JsString(Chars("Acme")),
      JsString(Chars("Tech Store")), JsString(Chars("Invoice")), JsInt(7) }

Confidences ==
    { JsUndefined, JsNull, Hundredths(0), Hundredths(59), Hundredths(60),
      Hundredths(61), Hundredths(100) }

Categories ==
    { JsUndefined, JsString(<<>>), JsString(Chars("finance")),
      JsString(Chars("invoice")), JsString(Chars("Letter")) }

ProcessingData ==
    { ("correspondent.name" :> n) @@ ("correspondent.confidence" :> c)
          @@ ("document_analysis.category" :> g) :
        n \in ExtractedNames, c \in Confidences, g \in Categories }

\* let correspondentName = 'Unknown'; if (...) {...} else if (...) {...} else {...}
ChooseCorrespondentName(processingData) ==
    IF /\ Get(processingData, "correspondent.name").truthy
       /\ GreaterThanThreshold(Get(processingData, "correspondent.confidence"))
    THEN Get(processingData, "correspondent.name")
    ELSE IF Get(processingData, "document_analysis.category").truthy
    THEN Get(processingData, "document_analysis.category")
    ELSE JsString(Unknown)

\* const commonDocTypes
commonDocTypes ==
    << Chars("invoice"), Chars("letter"), Chars("contract"), Chars("receipt"),
       Chars("statement"), Chars("document") >>

\* correspondentName.toLowerCase() of a value that has no such method
ValidateCorrespondentNameThrows(correspondentName) ==
    ~HasStringMethods(correspondentName)

\* if (commonDocTypes.includes(correspondentName.toLowerCase())) correspondentName = 'Unknown';
ValidateCorrespondentName(correspondentName) ==
    IF \E i \in DOMAIN commonDocTypes :
          commonDocTypes[i] = toLowerCase(correspondentName.str)
    THEN JsString(Unknown)
    ELSE correspondentName

ExtractionInit ==
    /\ name = JsUndefined
    /\ pc = "extraction"
    /\ canonical = <<>>
    /\ previous = <<>>
    /\ slug = <<>>
    /\ wf = NoWorkflow
    /\ wfpc = "Consolidated Processor"
    /\ item \in ProcessingData
    /\ sent = <<>>
    /\ paths = <<>>
    /\ visited = <<>>
    /\ thrown = <<>>
    /\ runs = 1
    /\ calls = <<>>
    /\ frames = <<>>
    /\ tables = <<>>

\* The priority choice: name holds correspondentName.
ChooseCorrespondent ==
    /\ pc = "extraction"
    /\ name' = ChooseCorrespondentName(item)
    /\ pc' = "chosen"
    /\ UNCHANGED <<canonical, previous, slug, wf, wfpc, item, sent, paths,
                   visited, thrown, runs, calls, frames, tables>>

\* The validation against the document types.
ValidateCorrespondent ==
    /\ pc = "chosen"
    /\ IF ValidateCorrespondentNameThrows(name)
       THEN /\ pc' = "validation threw"
            /\ thrown' = Chars("TypeError: correspondentName.toLowerCase is not a function")
            /\ name' = name
       ELSE /\ pc' = "validated"
            /\ name' = ValidateCorrespondentName(name)
            /\ thrown' = thrown
    /\ UNCHANGED <<canonical, previous, slug, wf, wfpc, item, sent, paths,
                   visited, runs, calls, frames, tables>>

ExtractionNext == ChooseCorrespondent \/ ValidateCorrespondent

SpecExtraction == ExtractionInit /\ [][ExtractionNext]_vars

----------------------------------------------------------------------------
\* From the extraction block to 'Generate Storage Path': 'Consolidated
\* Processor' hands correspondentName on as result.correspondent_name
\* (build_v14_workflow.py), and GENERATE_STORAGE_PATH_CODE normalizes it.

\* Names an AI answer carries for a sender: document types as they are
\* listed, in other case, with white space or punctuation around them, and
\* company names.
SenderNames ==
    { JsUndefined, JsInt(7), JsString(Chars("Acme")), JsString(Chars("Letter GmbH")),
      JsString(Chars("invoice")), JsString(Chars("Invoice")),
      JsString(Chars("STATEMENT")), JsString(Chars(" Invoice")),
      JsString(Chars("Receipt.")), JsString(Chars("CONTRACT ")) }

\* const storageCategory: the first segment of storagePath or the default.
ProcessorCategories == {JsString(Chars("finance")), JsString(DefaultCategory)}

\* processingData, flat as above, with the storageCategory of the processor.
SenderData ==
    { ("correspondent.name" :> n) @@ ("correspondent.confidence" :> c)
          @@ ("document_analysis.category" :> g) @@ ("storageCategory" :> s) :
        n \in SenderNames, c \in {Hundredths(60), Hundredths(90)},
        g \in {JsUndefined, JsString(Chars("finance")), JsString(Chars("Letter"))},
        s \in ProcessorCategories }

\* result.correspondent_name = correspondentName || 'Unknown';
\* result.storage_category = storageCategory;
EntityData(correspondentName, storageCategory) ==
    ("correspondent_name" :> JsOr(correspondentName, JsString(Unknown)))
        @@ ("storage_category" :> storageCategory)

SenderInit ==
    /\ name = JsUndefined
    /\ pc = "extraction"
    /\ canonical = <<>>
    /\ previous = <<>>
    /\ slug = <<>>
    /\ wf = NoWorkflow
    /\ wfpc = "Consolidated Processor"
    /\ item \in SenderData
    /\ sent = <<>>
    /\ paths = <<>>
    /\ visited = <<>>
    /\ thrown = <<>>
    /\ runs = 1
    /\ calls = <<>>
    /\ frames = <<>>
    /\ tables = <<>>

\* 'Consolidated Processor' returns result, and 'Generate Storage Path' of
\* v14.2 runs on it: item holds the json it returns.
GenerateFromExtraction ==
    /\ pc = "validated"
    /\ wfpc = "Consolidated Processor"
    /\ LET data == GenerateStoragePath(EntityData(name, item["storageCategory"]))
       IN  /\ item' = data
           /\ canonical' = data.correspondent_canonical.str
    /\ pc' = "generated"
    /\ wfpc' = "Generate Storage Path"
    /\ UNCHANGED <<name, previous, slug, wf, sent, paths, visited, thrown, runs,
                   calls, frames, tables>>

SenderNext == ChooseCorrespondent \/ ValidateCorrespondent \/ GenerateFromExtraction

SpecSender == SenderInit /\ [][SenderNext]_vars

----------------------------------------------------------------------------
\* 'Generate Storage Path' of v14.2 on its own: the node of the fixed
\* workflow run on the items 'Consolidated Processor' can hand it.

RawCorrespondents ==
    {JsString(s) : s \in Numbers \cup Heads \cup StringsUpTo(ShortAlphabet, 2)
                         \cup StringsUpTo(EscapeAlphabet, 3)}
        \cup {JsNull, JsInt(7), Absent}

GenerateInit ==
    /\ name = JsUndefined
    /\ pc = "none"
    /\ canonical = <<>>
    /\ previous = <<>>
    /\ slug = <<>>
    /\ wf = [nodes |-> FixedNodes(EnhancedNodes), connections |-> EnhancedConnections,
             fixes_applied |-> FixesApplied(EnhancedNodes)]
    /\ wfpc = "Generate Storage Path"
    /\ \E correspondent \in RawCorrespondents,
          category \in {JsString(Chars("finance")), JsString(<<>>), Absent} :
          item = ("Consolidated Processor" :> ProcessorItem(correspondent, category))
                 @@ ("$input" :> ProcessorItem(correspondent, category))
    /\ sent = <<>>
    /\ paths = <<>>
    /\ visited = <<>>
    /\ thrown = <<>>
    /\ runs = 1
    /\ calls = <<>>
    /\ frames = <<>>
    /\ tables = <<>>

GenerateNext == GenerateStoragePathNode

SpecGenerate == GenerateInit /\ [][GenerateNext]_vars

----------------------------------------------------------------------------
\* The reference transforms the claims are stated against: the pipeline with
\* \s, \b and \w as regex escapes and U+0300..U+036F as the class of
\* combining marks.

RefLetter == Lower \cup Upper \cup {AUML, aUML}
RefWordChar == RefLetter \cup Digit \cup {"_"}
RefMarks == {DIAERESIS}

RefAmpersandRe == << <<Star(WhiteSpace), One({"&"}), Star(WhiteSpace)>> >>
RefAndRe ==
    << IgnoreCase(<<Plus(WhiteSpace)>> \o Lit(Chars("and")) \o <<Plus(WhiteSpace)>>) >>
RefSpacesRe == << <<Plus(WhiteSpace)>> >>
RefTrailingRe == << <<Star(WhiteSpace), One({"&", "+"}), Star(WhiteSpace)>> >>
RefMarksRe == << <<One(RefMarks)>> >>

RefBoundary(s, p) ==
    (p > 1 /\ s[p - 1] \in RefWordChar) # (p <= Len(s) /\ s[p] \in RefWordChar)

\* The length of the whole-word legal suffix at position i of s, 0 if none.
RefSuffixLen(s, i) ==
    LET ok == {a \in 1..Len(LEGAL_SUFFIXES) :
                  LET e == MatchFrom(s, i, IgnoreCase(LEGAL_SUFFIXES[a]), 1, FALSE)
                  IN  e > i /\ RefBoundary(s, e)}
    IN  IF ~RefBoundary(s, i) \/ ok = {} THEN 0
        ELSE MatchFrom(s, i,
                 IgnoreCase(LEGAL_SUFFIXES[CHOOSE a \in ok : \A b \in ok : a <= b]),
                 1, FALSE) - i

RefStripSuffixesAll(s) ==
    LET out[i \in 1..(Len(s) + 1)] ==
            The({IF at = {} THEN SubSeq(s, i, Len(s))
                 ELSE The({SubSeq(s, i, j - 1) \o out[j + RefSuffixLen(s, j)] :
                           j \in {CHOOSE j \in at : \A k \in at : j <= k}}) :
                 at \in {{j \in i..Len(s) : RefSuffixLen(s, j) > 0}}})
    IN  out[1]

RefStripSuffixes(str) == The({RefStripSuffixesAll(s) : s \in {str}})

RefTitleCase(str) ==
    The({[i \in 1..Len(s) |->
            IF s[i] \in RefWordChar /\ (i = 1 \/ s[i - 1] \notin RefWordChar)
            THEN toUpperCaseChar(s[i]) ELSE s[i]] : s \in {str}})

RefStripName(str) ==
    LET n1 == trim(replace(replace(replace(replace(str,
                    PunctRe, FALSE, Space),
                    RefAmpersandRe, FALSE, Space),
                    RefAndRe, FALSE, Space),
                    RefSpacesRe, FALSE, Space))
        n2 == trim(replace(RefStripSuffixes(n1), RefSpacesRe, FALSE, Space))
        n3 == trim(replace(n2, RefTrailingRe, TRUE, Nothing))
    IN  RefTitleCase(n3)

RefNormalize(str) ==
    LET n == RefStripName(str) IN IF n # <<>> THEN n ELSE Unknown

RefSlug(s) ==
    substring(
        stripHyphens(
            replace(
                replace(normalizeNFD(toLowerCase(s)), RefMarksRe, FALSE, Nothing),
                NonAlnumRe, FALSE, Hyphen)),
        SlugMaxLen)

LowerTrimmed(v) == trim(toLowerCase(v.str))

IsString(v) == v.type = "string"

----------------------------------------------------------------------------
\* Claims

\* C1: for every input that matches no alias key, normalizeCorrespondent as
\* written into the node returns what the reference pipeline returns for the
\* original-case name; normalize("Acme GmbH & Co") = "Acme".
C1_NormalizeIsReference ==
    (pc = "normalized" /\ IsString(name) /\ name.truthy
        /\ AliasMatch(LowerTrimmed(name)) = 0)
    => /\ canonical = RefNormalize(name.str)
       /\ name.str = Chars("Acme GmbH & Co") => canonical = Chars("Acme")

\* C2: when the lower-cased, trimmed input starts with an alias key, the
\* result is exactly the value mapped to that key, whatever follows the key;
\* the first key in insertion order that matches decides.
C2_AliasPrefixWins ==
    (pc = "normalized" /\ IsString(name))
    => \A a \in 1..Len(ALIASES) :
          startsWith(LowerTrimmed(name), ALIASES[a][1])
          => /\ canonical = ALIASES[a][2]
             /\ \A b \in 1..a :
                   (\A c \in 1..(b - 1) :
                        ~startsWith(LowerTrimmed(name), ALIASES[c][1]))
                   /\ startsWith(LowerTrimmed(name), ALIASES[b][1])
                   => canonical = ALIASES[b][2]

\* C2 witness: an input with capitals, leading whitespace and text after the
\* key was resolved through the alias table.
C2_Witness ==
    /\ pc = "normalized"
    /\ name = JsString(Chars(" MAGENTA GmbH & Co"))
    /\ canonical = Chars("Magenta Telekom")

\* C3: a value that is not a string, or a string that is empty or only
\* whitespace, normalises to exactly "Unknown".
C3_BlankIsUnknown ==
    (pc = "normalized" /\ (~IsString(name) \/ trim(name.str) = <<>>))
    => canonical = Unknown

\* C3 witness: a non-empty string of whitespace only was normalised.
C3_Witness ==
    /\ pc = "normalized"
    /\ name = JsString(<<" ", "\t">>)
    /\ canonical = Unknown

IsSlugChar(c) == c \in Lower \cup Digit

\* ^[a-z0-9]*(-[a-z0-9]+)*$
IsSlug(s) ==
    /\ \A i \in 1..Len(s) : IsSlugChar(s[i]) \/ s[i] = "-"
    /\ s # <<>> => s[1] # "-" /\ s[Len(s)] # "-"
    /\ \A i \in 1..(Len(s) - 1) : ~(s[i] = "-" /\ s[i + 1] = "-")

\* C4: every slug matches ^[a-z0-9]*(-[a-z0-9]+)*$ and is at most 50
\* characters long, also when the truncation cuts right after a hyphen.
C4_SlugWellFormed ==
    pc \in {"slugified", "canonical slugified"}
    => IsSlug(slug) /\ Len(slug) <= SlugMaxLen

\* C5: generateSlug as written into the node equals the reference transform
\* for every string: ASCII letters and digits are kept, an accented letter
\* folds to its base letter without a hyphen.
C5_SlugIsReference ==
    pc = "slugified" => slug = RefSlug(name.str)

\* C6: normalising a result again changes nothing when that result starts
\* with no alias key.
C6_Idempotent ==
    (pc = "renormalized" /\ AliasMatch(toLowerCase(previous)) = 0)
    => canonical = previous

C8_TitleCase ==
    (pc \in {"normalized", "canonical slugified"} /\ IsString(name) /\ name.truthy
        /\ AliasMatch(LowerTrimmed(name)) = 0)
    => /\ canonical = RefTitleCase(canonical)
       /\ name.str = <<AUML>> \o Chars("rger GmbH")
          => /\ canonical = <<AUML>> \o Chars("rger")
             /\ pc = "canonical slugified" => slug = Chars("arger")

GeneratedFields ==
    {"correspondent_canonical", "storage_path_template", "storage_path_name"}

FixedWorkflow == wfpc \notin {"loaded", "built"} /\ wf.fixes_applied # <<>>

\* C9: for every input item the fixed 'Generate Storage Path' node returns
\* correspondent_canonical = normalize(raw), storage_path_template =
\* category/slugify(normalize(raw))/{created_year}-..., storage_path_name =
\* category - normalize(raw), with category the storage_category or
\* 'reference-documents' and raw the correspondent_name or 'Unknown', and
\* every other field of the input unchanged.
C9_StoragePathOutput ==
    (FixedWorkflow /\ wfpc = "Check Storage Paths")
    => LET in  == item["Get Correspondent ID"]
           out == item["Generate Storage Path"]
           category == IF Get(in, "storage_category").truthy
                       THEN ToStr(in.storage_category) ELSE DefaultCategory
           raw == IF Get(in, "correspondent_name").truthy
                  THEN in.correspondent_name ELSE JsString(Unknown)
           n == normalizeCorrespondent(raw)
       IN  /\ DOMAIN out = DOMAIN in \cup GeneratedFields
           /\ out.correspondent_canonical = JsString(n)
           /\ out.storage_path_template =
                  JsString(category \o <<"/">> \o generateSlug(n) \o DateTitle)
           /\ out.storage_path_name = JsString(category \o Chars(" - ") \o n)
           /\ \A f \in DOMAIN in \ GeneratedFields : out[f] = in[f]

\* C9 witness: the node ran on an item without storage_category whose
\* correspondent resolves through the alias table.
C9_Witness ==
    /\ FixedWorkflow
    /\ wfpc = "Check Storage Paths"
    /\ "storage_category" \notin DOMAIN item["Get Correspondent ID"]
    /\ Get(item["Get Correspondent ID"], "correspondent_name")
           = JsString(Chars(" MAGENTA GmbH & Co"))
    /\ item["Generate Storage Path"].storage_path_name
           = JsString(Chars("reference-documents - Magenta Telekom"))
    /\ item["Generate Storage Path"].storage_path_template
           = JsString(Chars("reference-documents/magenta-telekom") \o DateTitle)

\* C10: in the fixed workflow the name 'Create Correspondent' sends is the
\* canonical name normalizeCorrespondent produces for the document's
\* correspondent, not the raw correspondent_name.
C10_CreateSendsCanonical ==
    \A i \in DOMAIN sent :
        (FixedWorkflow /\ sent[i].node = "Create Correspondent"
            /\ IsString(Get(item["Consolidated Processor"], "correspondent_name"))
            /\ Get(item["Consolidated Processor"], "correspondent_name").truthy)
        => sent[i].name
             = JsString(normalizeCorrespondent(
                   item["Consolidated Processor"].correspondent_name))

\* The last node the execution ran.
LastVisited == IF visited = <<>> THEN "" ELSE visited[Len(visited)]

\* 'Create Storage Path' ran in this execution and the server refused the
\* storage path as a duplicate.
DuplicateAnswered ==
    /\ "Create Storage Path" \in DOMAIN item
    /\ item["Create Storage Path"] \in DuplicateAnswers

\* C11: after Fix 3 'Get Storage Path ID' retries on a unique-constraint
\* error: when 'Create Storage Path' was answered with such an error,
\* 'Get Storage Path ID' does not end the execution but obtains the ID.
C11_RetriesAfterDuplicate ==
    (FixedWorkflow /\ DuplicateAnswered /\ LastVisited = "Get Storage Path ID")
    => /\ wfpc # "failed"
       /\ Get(item["Get Storage Path ID"], "storage_path_id").truthy

\* What the code does instead: the execution ends with the duplicate error
\* and without a storage_path_id.
C11_ThrowsAfterDuplicate ==
    (FixedWorkflow /\ DuplicateAnswered /\ LastVisited = "Get Storage Path ID")
    => /\ wfpc = "failed"
       /\ thrown = DuplicateError
       /\ "Get Storage Path ID" \notin DOMAIN item

\* The nodes an execution can reach from node from, from itself included.
Reachable(connections, from) ==
    LET step[k \in 0..Cardinality(V13Names) + 2] ==
            IF k = 0 THEN {from}
            ELSE step[k - 1]
                   \cup UNION {{connections[n][o] : o \in DOMAIN connections[n]} :
                               n \in step[k - 1] \cap DOMAIN connections}
    IN  step[Cardinality(V13Names) + 2]

\* C12: in the workflow build_v14_workflow writes, Entity Manager lies on
\* the connection path between 'Consolidated Processor' and 'Check if
\* Updates Needed': it is reached from the former and reaches the latter.
C12_EntityManagerWired ==
    wfpc = "v14 written"
    => /\ "Entity Manager" \in Reachable(wf.connections, "Consolidated Processor")
       /\ "Check if Updates Needed" \in Reachable(wf.connections, "Entity Manager")

\* What the script writes instead: the connections of the v13.1 workflow,
\* in which no node leads to Entity Manager and Entity Manager leads nowhere.
C12_EntityManagerUnconnected ==
    wfpc = "v14 written"
    => /\ "Entity Manager" \in DOMAIN wf.nodes
       /\ "Entity Manager" \notin DOMAIN wf.connections
       /\ \A n \in DOMAIN wf.connections :
              "Entity Manager" \notin Range(wf.connections[n])

\* Whether a character of s is in [a-z0-9] after lower-casing and folding
\* of diacritics.
HasSlugChar(s) ==
    \E i \in DOMAIN normalizeNFD(toLowerCase(s)) :
        normalizeNFD(toLowerCase(s))[i] \in Lower \cup Digit

\* C13: the slug of a string is empty exactly when no character of the
\* string is in [a-z0-9] after lower-casing and diacritic folding; the slug
\* of the empty string is empty, and the slug of "Unknown" and of every
\* alias value is not.
C13_SlugEmptyIff ==
    /\ pc = "slugified"
       => /\ (slug = <<>>) <=> ~HasSlugChar(name.str)
          /\ name.str = <<>> => slug = <<>>
    /\ (pc = "canonical slugified"
          /\ (canonical = Unknown \/ \E a \in DOMAIN ALIASES : canonical = ALIASES[a][2]))
       => slug # <<>>

\* C14: normalize returns for every value of any type and slugify for every
\* string; neither raises an error, and the slugify call that follows
\* normalize in 'Generate Storage Path' gets a string and does not raise.
C14_NoExceptions ==
    /\ pc # "normalize threw"
    /\ pc # "canonical slugify threw"
    /\ pc = "slugify threw" => ~IsString(name)
    /\ pc \in {"normalized", "renormalized", "slugified", "canonical slugified"}
       => thrown = <<>>

\* C14 witness: a truthy value that is not a string was normalised, and the
\* slug of the result was taken.
C14_Witness ==
    /\ name \in {JsInt(7), JsObject, JsTrue}
    /\ pc = "canonical slugified"
    /\ canonical = Unknown
    /\ thrown = <<>>

\* What a call returns when it runs alone.
Alone(fn, arg) ==
    IF fn = "generateSlug" THEN JsString(generateSlug(arg.str))
    ELSE JsString(normalizeCorrespondent(arg))

\* C15: under any interleaving of calls of normalize and slugify every call
\* returns what it returns when it runs alone on its input, and the alias
\* table and the legal-suffix list stay as they are.
C15_CallsIndependent ==
    /\ \A c \in Callers :
          calls[c].at = "returned" => calls[c].result = Alone(calls[c].fn, calls[c].arg)
    /\ tables = [LEGAL_SUFFIXES |-> LEGAL_SUFFIXES, ALIASES |-> ALIASES]

\* C15 witness: a call returned while the call of another caller, on another
\* input, was between two of its statements.
C15_Witness ==
    \E c, d \in Callers :
        /\ calls[c].at = "returned"
        /\ calls[c].fn = "normalizeCorrespondent"
        /\ calls[c].arg = JsString(<<BS, "+", BS, BS, "+", BS>>)
        /\ calls[c].result = JsString(<<BS, "+", BS>>)
        /\ calls[d].at = "trailing"
        /\ calls[d].arg = JsString(Chars("a.b , c"))

MainOrder ==
    <<"Consolidated Processor", "Check Correspondent Exists", "Correspondent Exists?",
      "Get Correspondent ID", "Generate Storage Path", "Check Storage Paths",
      "Match Storage Path", "Create Storage Path?", "Get Storage Path ID",
      "Build Update Payload">>

IsCreateNode(n) == n \in {"Create Correspondent", "Create Storage Path"}

IsMainNode(n) == ~IsCreateNode(n)

ErrorText(answer) ==
    IF Get(answer, "error").truthy THEN Get(answer, "error")
    ELSE IF Get(answer, "message").truthy THEN Get(answer, "message")
    ELSE JsString(<<>>)

SaysDuplicate(answer) ==
    /\ IsString(ErrorText(answer))
    /\ \/ Contains(toLowerCase(ErrorText(answer).str), Chars("unique constraint"))
       \/ Contains(toLowerCase(ErrorText(answer).str), Chars("already exists"))

\* C17: the 'Get Storage Path ID' node of Fix 3 throws or returns.  It
\* throws when its input has a statusCode >= 400, with the duplicate message
\* when the error text contains 'unique constraint' or 'already exists',
\* and when neither 'Match Storage Path' nor the input has an ID.  When it
\* returns, storage_path_id is set, storage_path_source is 'existing' or
\* 'created', and the ID of 'Match Storage Path' is taken before the ID of
\* the input.
C17_ThrowsOrReturns ==
    LastVisited = "Get Storage Path ID"
    => LET matchResult == item["Match Storage Path"]
           createResult == item["Create Storage Path"]
           out == item["Get Storage Path ID"]
       IN  /\ wfpc \in {"failed", "Build Update Payload"}
           /\ wfpc = "failed" <=> thrown # <<>>
           /\ Get(createResult, "statusCode").num >= 400
              => /\ wfpc = "failed"
                 /\ SaysDuplicate(createResult) => thrown = DuplicateError
           /\ (~Get(matchResult, "storage_path_id").truthy /\ ~Get(createResult, "id").truthy)
              => wfpc = "failed"
           /\ wfpc = "Build Update Payload"
              => /\ Get(out, "storage_path_id").truthy
                 /\ out.storage_path_source
                      \in {JsString(Chars("existing")), JsString(Chars("created"))}
                 /\ Get(matchResult, "storage_path_id").truthy
                    => /\ out.storage_path_id = matchResult.storage_path_id
                       /\ out.storage_path_source = JsString(Chars("existing"))
                 /\ ~Get(matchResult, "storage_path_id").truthy
                    => /\ out.storage_path_id = createResult.id
                       /\ out.storage_path_source = JsString(Chars("created"))

\* C17 witness: the node returned on an input with an ID of its own and a
\* statusCode below 400, after 'Match Storage Path' had found an ID.
C17_Witness ==
    /\ LastVisited = "Get Storage Path ID"
    /\ wfpc = "Build Update Payload"
    /\ Get(item["Create Storage Path"], "id") = JsInt(9)
    /\ Get(item["Create Storage Path"], "statusCode") = JsInt(399)
    /\ item["Get Storage Path ID"].storage_path_id = JsInt(5)

\* The document is processed again after its first execution ended with the
\* duplicate error, and 'Check Storage Paths' has returned the list.
RerunAfterDuplicate ==
    /\ FixedWorkflow
    /\ runs = 2
    /\ "Check Storage Paths" \in DOMAIN item
    /\ "results" \in DOMAIN item["Check Storage Paths"]

\* What C18 says of the second execution.
RerunSucceeds ==
    /\ wfpc # "Create Storage Path"
    /\ "Match Storage Path" \in DOMAIN item
       => /\ item["Match Storage Path"].storage_path_exists = JsTrue
          /\ \E i \in DOMAIN paths :
                /\ \/ paths[i].name = item["Match Storage Path"].storage_path_name.str
                   \/ paths[i].path = item["Match Storage Path"].storage_path_template.str
                /\ item["Match Storage Path"].storage_path_id = JsInt(paths[i].id)
    /\ LastVisited = "Get Storage Path ID"
       => /\ wfpc = "Build Update Payload"
          /\ item["Get Storage Path ID"].storage_path_id
               = item["Match Storage Path"].storage_path_id
          /\ item["Get Storage Path ID"].storage_path_source = JsString(Chars("existing"))

\* C18: when the creation of a storage path is rejected as a duplicate
\* because a concurrent execution created it first, the rejected execution
\* ends with the duplicate error, and when the document is processed again
\* 'Match Storage Path' finds the path by name or by path template, 'Create
\* Storage Path' is not invoked and 'Get Storage Path ID' returns the
\* existing ID.
C18_RerunFindsPath ==
    /\ (FixedWorkflow /\ DuplicateAnswered /\ LastVisited = "Get Storage Path ID")
       => (wfpc = "failed" /\ thrown = DuplicateError)
    /\ RerunAfterDuplicate => RerunSucceeds

\* The same for a server that holds no more storage paths than one page.
C18_RerunFindsPathOnOnePage ==
    (RerunAfterDuplicate /\ Count(paths) <= PageSize) => RerunSucceeds

\* The list 'Check Storage Paths' returned to 'Match Storage Path', and the
\* positions in it of the paths that have the target name or the target path
\* template of 'Generate Storage Path'.
ListReturned == item["Check Storage Paths"].results

Matching ==
    {i \in DOMAIN ListReturned :
        \/ JsString(ListReturned[i].name) = item["Generate Storage Path"].storage_path_name
        \/ JsString(ListReturned[i].path) = item["Generate Storage Path"].storage_path_template}

\* C19: 'Match Storage Path' sets storage_path_exists to true and
\* storage_path_id to the ID of the found path (the first in the list) exactly
\* when the list returned by 'Check Storage Paths' holds a path with the
\* target name or the target path template, and to false and null otherwise;
\* 'Create Storage Path' is invoked only in the second case.
C19_CreateOnlyWhenUnmatched ==
    "Match Storage Path" \in DOMAIN item =>
        LET m == item["Match Storage Path"]
        IN  /\ Matching # {}
               => /\ m.storage_path_exists = JsTrue
                  /\ \E i \in Matching :
                        /\ \A j \in Matching : i <= j
                        /\ m.storage_path_id = JsInt(ListReturned[i].id)
                  /\ wfpc # "Create Storage Path"
                  /\ \A k \in DOMAIN visited : visited[k] # "Create Storage Path"
            /\ Matching = {}
               => /\ m.storage_path_exists = JsFalse
                  /\ m.storage_path_id = JsNull
                  /\ LastVisited = "Create Storage Path?" => wfpc = "Create Storage Path"

\* 'Match Storage Path' found a path that has the target path template under
\* another name, ahead of the path that has the target name, and the
\* execution went on past the IF node without creating.
C19_Witness ==
    /\ LastVisited = "Get Storage Path ID"
    /\ Cardinality(Matching) = 2
    /\ \E i \in Matching :
          /\ \A j \in Matching : i <= j
          /\ JsString(ListReturned[i].name) # item["Generate Storage Path"].storage_path_name
          /\ item["Match Storage Path"].storage_path_id = JsInt(ListReturned[i].id)

\* The fields of processingData the extraction block reads.
AiName == Get(item, "correspondent.name")

AiConfidence == Get(item, "correspondent.confidence")

Category == Get(item, "document_analysis.category")

\* The AI-extracted name is present and its confidence is above 0.6.
AiNameTrusted ==
    /\ AiName.truthy
    /\ AiConfidence.type = "number"
    /\ AiConfidence.num > ConfidenceThreshold

\* C20: the extraction block chooses correspondentName by priority: the
\* AI-extracted correspondent.name exactly when it is present and its
\* confidence is strictly greater than 0.6, otherwise
\* document_analysis.category when it is present, otherwise 'Unknown'.
C20_ChoiceByPriority ==
    pc = "chosen" =>
        /\ AiNameTrusted => name = AiName
        /\ (~AiNameTrusted /\ Category.truthy) => name = Category
        /\ (~AiNameTrusted /\ ~Category.truthy) => name = JsString(Unknown)

\* A name that comes with a confidence of exactly 0.6 was passed over for the
\* category.
C20_Witness ==
    /\ pc = "chosen"
    /\ AiName = JsString(Chars("Acme"))
    /\ AiConfidence = Hundredths(ConfidenceThreshold)
    /\ Category = JsString(Chars("finance"))
    /\ name = Category

\* Whether a string is one of the document types, in any case.
IsDocumentType(str) ==
    \E i \in DOMAIN commonDocTypes : commonDocTypes[i] = toLowerCase(str)

\* C21: a correspondent that is a document type is replaced by 'Unknown', so
\* that for every extracted name the canonical correspondent used in
\* storage_path_name and storage_path_template of 'Generate Storage Path' is
\* not a document type.
C21_NoDocumentTypeDownstream ==
    pc = "generated" =>
        /\ ~IsDocumentType(canonical)
        /\ item.storage_path_name
             = JsString(item.storage_category.str \o Chars(" - ") \o canonical)
        /\ item.storage_path_template
             = JsString(item.storage_category.str \o <<"/">> \o generateSlug(canonical)
                        \o DateTitle)

\* What holds: the name the extraction block leaves is not a document type
\* as it stands, and the paths are made of the canonical name.
C21_NoDocumentTypeAfterValidation ==
    /\ pc = "validated" => ~IsDocumentType(name.str)
    /\ pc = "generated"
       => item.storage_path_name
            = JsString(item.storage_category.str \o Chars(" - ") \o canonical)

\* Whether a path has an empty segment: it starts or ends with a slash or
\* has two slashes in a row.
HasEmptySegment(path) ==
    \/ path = <<>>
    \/ path[1] = "/"
    \/ path[Len(path)] = "/"
    \/ \E i \in 1..(Len(path) - 1) : path[i] = "/" /\ path[i + 1] = "/"

\* C22: the storage_path_template that 'Generate Storage Path' produces has
\* no empty path segment: the slug between the category and the date-title
\* segment is never empty.
C22_NoEmptySegment ==
    "Generate Storage Path" \in DOMAIN item
        => ~HasEmptySegment(item["Generate Storage Path"].storage_path_template.str)

\* What holds: the template is the category, the slug of the canonical name
\* and the date-title segment, and the category is never empty.
C22_TemplateOfSlug ==
    "Generate Storage Path" \in DOMAIN item =>
        LET out == item["Generate Storage Path"]
            category == IF Get(out, "storage_category").truthy
                        THEN ToStr(out.storage_category) ELSE DefaultCategory
        IN  /\ category # <<>>
            /\ out.storage_path_template.str
                 = category \o <<"/">> \o generateSlug(out.correspondent_canonical.str)
                     \o DateTitle

\* The canonical values of the alias table.
AliasValues == {ALIASES[a][2] : a \in DOMAIN ALIASES}

\* C23: every canonical value of the alias table is a fixed point of
\* normalizeCorrespondent, so a name resolved through an alias keeps its
\* canonical name, and with it its slug, when it is normalized again.
C23_AliasValuesFixed ==
    /\ (pc = "normalized" /\ name.type = "string" /\ name.str \in AliasValues)
       => canonical = name.str
    /\ (pc = "renormalized" /\ previous \in AliasValues)
       => /\ canonical = previous
          /\ generateSlug(canonical) = generateSlug(previous)

\* A name resolved through the alias 'wiener linien gmbh & co' was
\* normalized again; its canonical value matches no alias itself.
C23_Witness ==
    /\ pc = "renormalized"
    /\ name = JsString(Chars("Wiener Linien GmbH & Co"))
    /\ AliasMatch(toLowerCase(previous)) = 0
    /\ previous = Chars("Wiener Linien")
    /\ canonical = previous

====
